---- MODULE Spec2Model ----
(***************************************************************************)
(* State-machine model of src/app.py: a Streamlit page that takes two API  *)
(* keys and a topic, writes the keys into the process environment, builds  *)
(* a three-task CrewAI crew, runs it and renders the result.               *)
(*                                                                         *)
(* A browser session is one script run at a time; the Streamlit server     *)
(* runs the script of every session in its own thread of one process, so   *)
(* the widget values and the script's locals are per session while         *)
(* os.environ is shared by all of them.  A thread switch can fall between  *)
(* any two statements, so each statement that touches os.environ is a      *)
(* step of its own.                                                        *)
(***************************************************************************)
EXTENDS Naturals, Sequences, FiniteSets

VARIABLES
    env,              \* os.environ restricted to the two variables
    env0,             \* os.environ when the process started
    openai_api_key,   \* sidebar text input, per session
    tavily_api_key,   \* sidebar text input, per session
    sujet_video,      \* topic text area, per session
    pc,               \* position of the session's script run
    ui,               \* elements the current run has put on the page
    web_search_tool,  \* local: the search-tool client (the key it holds)
    llm,              \* local: the model client (the key it holds)
    video_crew,       \* local: the assembled crew
    kickoffs,         \* kickoff calls made by the current run
    kickoff_inputs,   \* inputs of the last kickoff call of the run
    task_state,       \* state of each task inside kickoff
    result,           \* local: value returned by kickoff
    e,                \* the exception bound by the except clause
    escaped,          \* the exception that left the script uncaught
    raised            \* the exception a constructor or kickoff raised in the run

vars == <<env, env0, openai_api_key, tavily_api_key, sujet_video, pc, ui,
          web_search_tool, llm, video_crew, kickoffs, kickoff_inputs,
          task_state, result, e, escaped, raised>>

----------------------------------------------------------------------------
(* Values *)

Sessions == {"s1", "s2"}

EnvVars == {"OPENAI_API_KEY", "TAVILY_API_KEY"}

Absent == "<absent>"
None == "<none>"
Preset == "preset-key"

\* what a session can send as the values of the two password fields:
\* nothing, a key, or a key with an embedded NUL character
OpenAIKeys(s) == {"", "sk-" \o s, "sk-<NUL>" \o s}
TavilyKeys(s) == {"", "tvly-" \o s, "tvly-<NUL>" \o s}

\* os.environ[k] = v raises ValueError for a value with an embedded NUL
EmbeddedNul(v) ==
    v \in {"sk-<NUL>" \o s : s \in Sessions} \cup {"tvly-<NUL>" \o s : s \in Sessions}
NulMsg == "embedded null byte"

DefaultTopic == "L'impact du teletravail sur la productivite et le bien-etre"
Topics == {DefaultTopic, "", "   "}

\* str.strip() == "" on the topics of the model
IsBlank(t) == t \in {"", "   "}

\* Python truthiness of a str: `not x` is true exactly for the empty string
Falsy(x) == x = ""

MissingKeysMsg == "Veuillez entrer vos cles API OpenAI et Tavily dans la barre laterale pour continuer."
ErrPrefix == "Une erreur est survenue pendant l'execution du Crew : "
HintMsg == "Veuillez verifier vos cles API, vos credits OpenAI et que le modele 'gpt-4o' est disponible."
SuccessMsg == "Mission terminee ! Voici votre script."

El(kind, body) == [kind |-> kind, body |-> body]

\* classes of the exceptions the library calls can raise: "Exception" is
\* Exception and all that derives from it, "BaseException" is the rest
\* (KeyboardInterrupt, SystemExit, asyncio.CancelledError, the control
\* exceptions of the framework)
ExcClasses == {"Exception", "BaseException"}

\* messages of the exceptions the library calls can raise
ToolErrors == {"tavily: client init failed"}
LLMErrors == {"openai: client init failed"}
KickoffErrors == {"crew: execution failed"}
\* Agent(...), Task(...), Crew(...) rejecting their arguments
BuildErrors == {"crewai: validation error"}
\* an st.* call raising: a control exception of the framework or a failure
DrawErrors == {"streamlit: call failed"}
KeyErrorMsg(k) == "KeyError: " \o k

\* values kickoff can return: a CrewOutput with a raw text, a plain str
\* (older framework versions), or None
Texts == {"", "# Script"}
Results ==
    [type : {"CrewOutput"}, text : Texts]
        \cup [type : {"str"}, text : Texts]
        \cup {[type |-> "NoneType", text |-> "None"]}

NoResult == [type |-> "unset", text |-> ""]

\* bool(result)
Truthy(r) ==
    CASE r.type = "CrewOutput" -> TRUE
      [] r.type = "str" -> r.text # ""
      [] OTHER -> FALSE

\* hasattr(result, 'raw')
HasRaw(r) == r.type = "CrewOutput"

----------------------------------------------------------------------------
(* The task graph, lines 102-137 *)

TaskNames == {"task_trends", "task_research", "task_script"}

\* Task(..., context=[...])
TaskContext(t) ==
    CASE t = "task_trends" -> <<>>
      [] t = "task_research" -> <<"task_trends">>
      [] t = "task_script" -> <<"task_research">>

\* fault: the tasks declared with async_execution=True
TaskAsyncAll(t) == TRUE

\* Task(..., async_execution=False)
TaskAsync(t) == FALSE

\* Crew(tasks=[...])
CrewTasks == <<"task_trends", "task_research", "task_script">>

\* Crew(...) as assembled by one run
Crew ==
    [tasks |-> CrewTasks,
     context |-> [t \in TaskNames |-> TaskContext(t)],
     async_execution |-> [t \in TaskNames |-> TaskAsync(t)],
     process |-> "sequential"]

NoCrew == [tasks |-> <<>>,
           context |-> [t \in TaskNames |-> <<>>],
           async_execution |-> [t \in TaskNames |-> FALSE],
           process |-> "unset"]

AllPending == [t \in TaskNames |-> "pending"]

Range(q) == {q[i] : i \in 1..Len(q)}

----------------------------------------------------------------------------
(* Initial state: a fresh process, every session showing the page with   *)
(* its default widget values and the button not pressed.                 *)

Init ==
    /\ env0 \in [EnvVars -> {Absent, Preset}]
    /\ env = env0
    /\ openai_api_key = [s \in Sessions |-> ""]
    /\ tavily_api_key = [s \in Sessions |-> ""]
    /\ sujet_video = [s \in Sessions |-> DefaultTopic]
    /\ pc = [s \in Sessions |-> "idle"]
    /\ ui = [s \in Sessions |-> <<>>]
    /\ web_search_tool = [s \in Sessions |-> None]
    /\ llm = [s \in Sessions |-> None]
    /\ video_crew = [s \in Sessions |-> NoCrew]
    /\ kickoffs = [s \in Sessions |-> 0]
    /\ kickoff_inputs = [s \in Sessions |-> None]
    /\ task_state = [s \in Sessions |-> AllPending]
    /\ result = [s \in Sessions |-> NoResult]
    /\ e = [s \in Sessions |-> None]
    /\ escaped = [s \in Sessions |-> None]
    /\ raised = [s \in Sessions |-> None]

\* the locals of a script run, gone when the run ends
ResetLocals(s) ==
    /\ web_search_tool' = [web_search_tool EXCEPT ![s] = None]
    /\ llm' = [llm EXCEPT ![s] = None]
    /\ video_crew' = [video_crew EXCEPT ![s] = NoCrew]
    /\ task_state' = [task_state EXCEPT ![s] = AllPending]
    /\ result' = [result EXCEPT ![s] = NoResult]
    /\ e' = [e EXCEPT ![s] = None]

UnchangedLocals ==
    UNCHANGED <<web_search_tool, llm, video_crew, task_state, result, e>>

UnchangedInputs == UNCHANGED <<openai_api_key, tavily_api_key, sujet_video>>

----------------------------------------------------------------------------
(* Exceptions *)

\* the script run is over: its locals are gone, the page stays as drawn
EndRun(s) ==
    /\ pc' = [pc EXCEPT ![s] = "idle"]
    /\ ResetLocals(s)

\* line 154: `except Exception` catches Exception and what derives from it
Caught(cls) == cls = "Exception"

(* An exception leaves the script: from a statement outside the try, from *)
(* the try body when the except clause does not catch it, from inside the *)
(* except clause, or from the cleanup.  The run is over at that           *)
(* statement, with the handler's part of the page as drawn so             *)
(* far; Streamlit draws an exception of class Exception below it and      *)
(* draws nothing for the others.  No later line of the script runs.       *)
Leave(s, cls, msg, page) ==
    /\ escaped' = [escaped EXCEPT ![s] = msg]
    /\ ui' = [ui EXCEPT ![s] = IF cls = "Exception"
                                 THEN Append(page, El("exception", msg))
                                 ELSE page]
    /\ EndRun(s)

(* An exception is raised inside the try body (lines 48-152) with `page`  *)
(* drawn so far.  The except clause of line 154 takes it when its class   *)
(* is caught; there is no finally, so any other exception leaves the      *)
(* script at once and lines 158-162 are not executed.                     *)
Raise(s, cls, msg, page) ==
    IF Caught(cls)
      THEN /\ e' = [e EXCEPT ![s] = msg]
           /\ pc' = [pc EXCEPT ![s] = "except"]
           /\ ui' = [ui EXCEPT ![s] = page]
           /\ UNCHANGED <<web_search_tool, llm, video_crew, task_state, result, escaped>>
      ELSE Leave(s, cls, msg, page)

\* the exception that leaves a `with st.spinner` block (lines 50-53,
\* 140-141) whose body raised: the exit of the spinner runs while the
\* exception propagates, and an exception it raises replaces that one
LeavesSpinner(cls, msg) == {<<cls, msg>>} \cup (ExcClasses \X DrawErrors)

----------------------------------------------------------------------------
(* The script reruns with the button not pressed, on a widget change or  *)
(* on a rerun request with the widgets as they are: lines 8-37 draw the   *)
(* page and nothing of the handler runs.  These lines are outside any     *)
(* try, so an exception raised by one of their st.* calls ends the run.   *)
Rerun(s) ==
    /\ pc[s] = "idle"
    /\ \E o \in OpenAIKeys(s), t \in TavilyKeys(s), v \in Topics :
          /\ openai_api_key' = [openai_api_key EXCEPT ![s] = o]
          /\ tavily_api_key' = [tavily_api_key EXCEPT ![s] = t]
          /\ sujet_video' = [sujet_video EXCEPT ![s] = v]
    /\ \/ /\ ui' = [ui EXCEPT ![s] = <<>>]
          /\ escaped' = [escaped EXCEPT ![s] = None]
          /\ UNCHANGED pc
          /\ UnchangedLocals
       \/ \E cls \in ExcClasses, msg \in DrawErrors : Leave(s, cls, msg, <<>>)
    /\ kickoffs' = [kickoffs EXCEPT ![s] = 0]
    /\ kickoff_inputs' = [kickoff_inputs EXCEPT ![s] = None]
    /\ raised' = [raised EXCEPT ![s] = None]
    /\ UNCHANGED <<env, env0>>

(* Lines 8-37 with the button pressed: the page is drawn, st.button       *)
(* returns True and the script enters the block; an exception raised by   *)
(* one of the st.* calls on the way ends the run before the handler.      *)
Submit(s) ==
    /\ pc[s] = "idle"
    /\ \/ /\ pc' = [pc EXCEPT ![s] = "validate"]
          /\ ui' = [ui EXCEPT ![s] = <<>>]
          /\ escaped' = [escaped EXCEPT ![s] = None]
          /\ UnchangedLocals
       \/ \E cls \in ExcClasses, msg \in DrawErrors : Leave(s, cls, msg, <<>>)
    /\ kickoffs' = [kickoffs EXCEPT ![s] = 0]
    /\ kickoff_inputs' = [kickoff_inputs EXCEPT ![s] = None]
    /\ raised' = [raised EXCEPT ![s] = None]
    /\ UNCHANGED <<env, env0>>
    /\ UnchangedInputs

\* fault: the guard written with `and`, so that one key alone passes it
KeysMissingBoth(s) == Falsy(openai_api_key[s]) /\ Falsy(tavily_api_key[s])

\* line 40: the condition of the guard
KeysMissing(s) == Falsy(openai_api_key[s]) \/ Falsy(tavily_api_key[s])

\* fault: the environment is written before the guard is evaluated
ValidateAfterWrite(s) ==
    /\ pc[s] = "validate"
    /\ env' = [k \in EnvVars |-> IF k = "OPENAI_API_KEY" THEN openai_api_key[s]
                                                         ELSE tavily_api_key[s]]
    /\ IF KeysMissing(s)
         THEN \/ /\ ui' = [ui EXCEPT ![s] = Append(@, El("error", MissingKeysMsg))]
                 /\ pc' = [pc EXCEPT ![s] = "idle"]
                 /\ UNCHANGED escaped
                 /\ UnchangedLocals
              \/ \E cls \in ExcClasses, msg \in DrawErrors : Leave(s, cls, msg, ui[s])
         ELSE /\ pc' = [pc EXCEPT ![s] = "set_openai"]
              /\ UNCHANGED <<ui, escaped>>
              /\ UnchangedLocals
    /\ UNCHANGED <<env0, kickoffs, kickoff_inputs, raised>>
    /\ UnchangedInputs

(* Lines 40-42: with a key missing, st.error draws the configuration      *)
(* error and st.stop ends the run; line 41 is outside the try, so an      *)
(* exception st.error raises leaves the script there.                     *)
Validate(s) ==
    /\ pc[s] = "validate"
    /\ IF KeysMissing(s)
         THEN \/ /\ ui' = [ui EXCEPT ![s] = Append(@, El("error", MissingKeysMsg))]
                 /\ pc' = [pc EXCEPT ![s] = "idle"]
                 /\ UNCHANGED escaped
                 /\ UnchangedLocals
              \/ \E cls \in ExcClasses, msg \in DrawErrors : Leave(s, cls, msg, ui[s])
         ELSE /\ pc' = [pc EXCEPT ![s] = "set_openai"]
              /\ UNCHANGED <<ui, escaped>>
              /\ UnchangedLocals
    /\ UNCHANGED <<env, env0, kickoffs, kickoff_inputs, raised>>
    /\ UnchangedInputs

(* Line 45, outside the try: the assignment raises ValueError for a key   *)
(* with an embedded NUL, writing nothing, and the exception leaves the    *)
(* script.                                                                *)
SetOpenAI(s) ==
    /\ pc[s] = "set_openai"
    /\ IF EmbeddedNul(openai_api_key[s])
         THEN /\ Leave(s, "Exception", NulMsg, ui[s])
              /\ env' = env
         ELSE /\ env' = [env EXCEPT !["OPENAI_API_KEY"] = openai_api_key[s]]
              /\ pc' = [pc EXCEPT ![s] = "set_tavily"]
              /\ UNCHANGED <<ui, escaped>>
              /\ UnchangedLocals
    /\ UNCHANGED <<env0, kickoffs, kickoff_inputs, raised>>
    /\ UnchangedInputs

(* Line 46, likewise: when it raises, the key of line 45 stays written.   *)
SetTavily(s) ==
    /\ pc[s] = "set_tavily"
    /\ IF EmbeddedNul(tavily_api_key[s])
         THEN /\ Leave(s, "Exception", NulMsg, ui[s])
              /\ env' = env
         ELSE /\ env' = [env EXCEPT !["TAVILY_API_KEY"] = tavily_api_key[s]]
              /\ pc' = [pc EXCEPT ![s] = "init_tool"]
              /\ UNCHANGED <<ui, escaped>>
              /\ UnchangedLocals
    /\ UNCHANGED <<env0, kickoffs, kickoff_inputs, raised>>
    /\ UnchangedInputs

(* Lines 50-51: st.spinner is entered, then TavilySearchTool(max_results=3) *)
(* takes its key from the environment; it raises without one and may      *)
(* raise for any other cause.  An exception of st.spinner on entry goes   *)
(* on as it is; one of the constructor passes the exit of the spinner.    *)
InitTool(s) ==
    /\ pc[s] = "init_tool"
    /\ \/ /\ env["TAVILY_API_KEY"] # Absent
          /\ web_search_tool' = [web_search_tool EXCEPT ![s] = env["TAVILY_API_KEY"]]
          /\ pc' = [pc EXCEPT ![s] = "init_llm"]
          /\ UNCHANGED <<ui, llm, video_crew, task_state, result, e, escaped, raised>>
       \/ /\ \E cls \in ExcClasses, msg \in DrawErrors : Raise(s, cls, msg, ui[s])
          /\ UNCHANGED raised
       \/ \E cls \in ExcClasses, msg \in ToolErrors :
             /\ raised' = [raised EXCEPT ![s] = msg]
             /\ \E x \in LeavesSpinner(cls, msg) : Raise(s, x[1], x[2], ui[s])
    /\ UNCHANGED <<env, env0, kickoffs, kickoff_inputs>>
    /\ UnchangedInputs

(* Line 53: ChatOpenAI(model="gpt-4o"), likewise, inside the same spinner. *)
InitLLM(s) ==
    /\ pc[s] = "init_llm"
    /\ \/ /\ env["OPENAI_API_KEY"] # Absent
          /\ llm' = [llm EXCEPT ![s] = env["OPENAI_API_KEY"]]
          /\ pc' = [pc EXCEPT ![s] = "init_done"]
          /\ UNCHANGED <<ui, web_search_tool, video_crew, task_state, result, e, escaped,
                         raised>>
       \/ \E cls \in ExcClasses, msg \in LLMErrors :
             /\ raised' = [raised EXCEPT ![s] = msg]
             /\ \E x \in LeavesSpinner(cls, msg) : Raise(s, x[1], x[2], ui[s])
    /\ UNCHANGED <<env, env0, kickoffs, kickoff_inputs>>
    /\ UnchangedInputs

(* The end of the `with st.spinner` block of lines 50-53, both clients    *)
(* built: the exit of the spinner returns or raises.                      *)
InitDone(s) ==
    /\ pc[s] = "init_done"
    /\ \/ /\ pc' = [pc EXCEPT ![s] = "build"]
          /\ UNCHANGED <<ui, escaped>>
          /\ UnchangedLocals
       \/ \E cls \in ExcClasses, msg \in DrawErrors : Raise(s, cls, msg, ui[s])
    /\ UNCHANGED <<env, env0, kickoffs, kickoff_inputs, raised>>
    /\ UnchangedInputs

\* lines 55, 98, 129: the three st.info notes
BuildNotes == <<El("info", "agents"), El("info", "tasks"), El("info", "launch")>>

(* Lines 55-137: st.info, the three agents, st.info, the three tasks,     *)
(* st.info, the crew.  Each note is followed by its constructors; the     *)
(* n-th st.info raises with the notes before it drawn, a constructor      *)
(* after the n-th note raises with that note drawn.                       *)
Build(s) ==
    /\ pc[s] = "build"
    /\ \/ /\ ui' = [ui EXCEPT ![s] = @ \o BuildNotes]
          /\ video_crew' = [video_crew EXCEPT ![s] = Crew]
          /\ pc' = [pc EXCEPT ![s] = "kickoff"]
          /\ UNCHANGED <<web_search_tool, llm, task_state, result, e, escaped>>
       \/ \E n \in 1..Len(BuildNotes), cls \in ExcClasses, msg \in DrawErrors :
             Raise(s, cls, msg, ui[s] \o SubSeq(BuildNotes, 1, n - 1))
       \/ \E n \in 1..Len(BuildNotes), cls \in ExcClasses, msg \in BuildErrors :
             Raise(s, cls, msg, ui[s] \o SubSeq(BuildNotes, 1, n))
    /\ UNCHANGED <<env, env0, kickoffs, kickoff_inputs, raised>>
    /\ UnchangedInputs

(* Lines 140-141: st.spinner, then video_crew.kickoff(inputs={'topic':    *)
(* sujet_video}) is called; st.spinner may raise before the call.         *)
Kickoff(s) ==
    /\ pc[s] = "kickoff"
    /\ \/ /\ kickoffs' = [kickoffs EXCEPT ![s] = @ + 1]
          /\ kickoff_inputs' = [kickoff_inputs EXCEPT ![s] = sujet_video[s]]
          /\ task_state' = [task_state EXCEPT ![s] = AllPending]
          /\ pc' = [pc EXCEPT ![s] = "running"]
          /\ UNCHANGED <<ui, escaped, web_search_tool, llm, video_crew, result, e>>
       \/ /\ \E cls \in ExcClasses, msg \in DrawErrors : Raise(s, cls, msg, ui[s])
          /\ UNCHANGED <<kickoffs, kickoff_inputs>>
    /\ UNCHANGED <<env, env0, raised>>
    /\ UnchangedInputs

\* the n-th task of the crew's list
TaskAt(s, n) == video_crew[s].tasks[n]

(* Inside kickoff, Process.sequential walks the task list in order: an     *)
(* async task is started and left running, a synchronous task first waits  *)
(* for every task started before it and then runs to completion.           *)
CanStart(s, n) ==
    /\ task_state[s][TaskAt(s, n)] = "pending"
    /\ \A m \in 1..(n - 1) :
          /\ task_state[s][TaskAt(s, m)] # "pending"
          /\ (~video_crew[s].async_execution[TaskAt(s, m)]
                 => task_state[s][TaskAt(s, m)] = "done")
    /\ (~video_crew[s].async_execution[TaskAt(s, n)]
           => \A m \in 1..(n - 1) : task_state[s][TaskAt(s, m)] = "done")

TaskStart(s) ==
    /\ pc[s] = "running"
    /\ \E n \in 1..Len(video_crew[s].tasks) :
          /\ CanStart(s, n)
          /\ task_state' = [task_state EXCEPT ![s][TaskAt(s, n)] = "running"]
    /\ UNCHANGED <<env, env0, pc, ui, kickoffs, kickoff_inputs, escaped, raised,
                   web_search_tool,
                   llm, video_crew, result, e>>
    /\ UnchangedInputs

TaskComplete(s) ==
    /\ pc[s] = "running"
    /\ \E t \in TaskNames :
          /\ task_state[s][t] = "running"
          /\ task_state' = [task_state EXCEPT ![s][t] = "done"]
    /\ UNCHANGED <<env, env0, pc, ui, kickoffs, kickoff_inputs, escaped, raised,
                   web_search_tool,
                   llm, video_crew, result, e>>
    /\ UnchangedInputs

(* Line 141: kickoff raises: network failure, quota, model unavailable,  *)
(* ..., or a cancellation or interruption of the call; the exception      *)
(* passes the exit of the spinner of line 140.                            *)
KickoffRaise(s) ==
    /\ pc[s] = "running"
    /\ \E cls \in ExcClasses, msg \in KickoffErrors :
          /\ raised' = [raised EXCEPT ![s] = msg]
          /\ \E x \in LeavesSpinner(cls, msg) : Raise(s, x[1], x[2], ui[s])
    /\ UNCHANGED <<env, env0, kickoffs, kickoff_inputs>>
    /\ UnchangedInputs

(* kickoff returns once every task is done; line 141 binds result *)
KickoffReturn(s) ==
    /\ pc[s] = "running"
    /\ \A t \in TaskNames : task_state[s][t] = "done"
    /\ \E r \in Results : result' = [result EXCEPT ![s] = r]
    /\ pc' = [pc EXCEPT ![s] = "kickoff_done"]
    /\ UNCHANGED <<env, env0, ui, kickoffs, kickoff_inputs, escaped, raised,
                   web_search_tool, llm, video_crew, task_state, e>>
    /\ UnchangedInputs

(* The end of the `with st.spinner` block of lines 140-141, result bound: *)
(* the exit of the spinner returns or raises.                             *)
KickoffDone(s) ==
    /\ pc[s] = "kickoff_done"
    /\ \/ /\ pc' = [pc EXCEPT ![s] = "render"]
          /\ UNCHANGED <<ui, escaped>>
          /\ UnchangedLocals
       \/ \E cls \in ExcClasses, msg \in DrawErrors : Raise(s, cls, msg, ui[s])
    /\ UNCHANGED <<env, env0, kickoffs, kickoff_inputs, raised>>
    /\ UnchangedInputs

\* fault: no fallback, only the raw field is ever drawn
RenderedRawOnly(r) == El("markdown", IF HasRaw(r) THEN r.text ELSE "")

\* lines 149-152: what is drawn for the returned value
Rendered(r) ==
    IF Truthy(r) /\ HasRaw(r)
      THEN El("markdown", r.text)
      ELSE El("write", r.text)

\* lines 144-152: what a run that returned r draws, call by call
RenderElements(r) ==
    <<El("success", SuccessMsg), El("markdown", "---"),
      El("subheader", "Script Video Genere"), Rendered(r)>>

(* Lines 144-152: the four drawing calls; the n-th one raises with the    *)
(* elements before it drawn.                                              *)
Render(s) ==
    /\ pc[s] = "render"
    /\ \/ /\ ui' = [ui EXCEPT ![s] = @ \o RenderElements(result[s])]
          /\ pc' = [pc EXCEPT ![s] = "clean_openai_check"]
          /\ UNCHANGED escaped
          /\ UnchangedLocals
       \/ \E n \in 1..Len(RenderElements(result[s])), cls \in ExcClasses,
             msg \in DrawErrors :
             Raise(s, cls, msg, ui[s] \o SubSeq(RenderElements(result[s]), 1, n - 1))
    /\ UNCHANGED <<env, env0, kickoffs, kickoff_inputs, raised>>
    /\ UnchangedInputs

\* fault: the except clause swallows the exception
ErrorBannersNone(msg) == <<>>

\* fault: the except clause shows the hint without the exception's message
ErrorBannersGeneric(msg) == <<El("error", HintMsg)>>

\* lines 155-156: the two st.error banners of the except clause
ErrorBanners(msg) == <<El("error", ErrPrefix \o msg), El("error", HintMsg)>>

\* fault: the except clause calls kickoff again after a failure inside it
ExceptRetry(s) ==
    /\ pc[s] = "except"
    /\ \/ /\ ui' = [ui EXCEPT ![s] = @ \o ErrorBanners(e[s])]
          /\ e' = [e EXCEPT ![s] = None]
          /\ pc' = [pc EXCEPT ![s] = IF e[s] \in KickoffErrors /\ kickoffs[s] < 2
                                       THEN "kickoff" ELSE "clean_openai_check"]
          /\ UNCHANGED <<web_search_tool, llm, video_crew, task_state, result, escaped>>
       \/ \E n \in 1..Len(ErrorBanners(e[s])), cls \in ExcClasses, msg \in DrawErrors :
             Leave(s, cls, msg, ui[s] \o SubSeq(ErrorBanners(e[s]), 1, n - 1))
    /\ UNCHANGED <<env, env0, kickoffs, kickoff_inputs, raised>>
    /\ UnchangedInputs

(* Lines 154-156: the except clause draws its two banners and ends, which *)
(* unbinds e; an exception raised by the n-th st.error is raised inside   *)
(* the handler, so no clause takes it: it leaves the script with the      *)
(* banners before it drawn.                                               *)
Except(s) ==
    /\ pc[s] = "except"
    /\ \/ /\ ui' = [ui EXCEPT ![s] = @ \o ErrorBanners(e[s])]
          /\ e' = [e EXCEPT ![s] = None]
          /\ pc' = [pc EXCEPT ![s] = "clean_openai_check"]
          /\ UNCHANGED <<web_search_tool, llm, video_crew, task_state, result, escaped>>
       \/ \E n \in 1..Len(ErrorBanners(e[s])), cls \in ExcClasses, msg \in DrawErrors :
             Leave(s, cls, msg, ui[s] \o SubSeq(ErrorBanners(e[s]), 1, n - 1))
    /\ UNCHANGED <<env, env0, kickoffs, kickoff_inputs, raised>>
    /\ UnchangedInputs

(* Line 159: if "OPENAI_API_KEY" in os.environ *)
CleanOpenAICheck(s) ==
    /\ pc[s] = "clean_openai_check"
    /\ pc' = [pc EXCEPT ![s] = IF env["OPENAI_API_KEY"] # Absent
                                 THEN "clean_openai_del"
                                 ELSE "clean_tavily_check"]
    /\ UNCHANGED <<env, env0, ui, kickoffs, kickoff_inputs, escaped, raised>>
    /\ UnchangedInputs
    /\ UnchangedLocals

(* Line 160: del os.environ["OPENAI_API_KEY"] *)
CleanOpenAIDel(s) ==
    /\ pc[s] = "clean_openai_del"
    /\ IF env["OPENAI_API_KEY"] # Absent
         THEN /\ env' = [env EXCEPT !["OPENAI_API_KEY"] = Absent]
              /\ pc' = [pc EXCEPT ![s] = "clean_tavily_check"]
              /\ ui' = ui
              /\ UnchangedLocals
              /\ UNCHANGED escaped
         ELSE /\ Leave(s, "Exception", KeyErrorMsg("OPENAI_API_KEY"), ui[s])
              /\ env' = env
    /\ UNCHANGED <<env0, kickoffs, kickoff_inputs, raised>>
    /\ UnchangedInputs

(* Line 161: if "TAVILY_API_KEY" in os.environ; the script ends when not *)
CleanTavilyCheck(s) ==
    /\ pc[s] = "clean_tavily_check"
    /\ IF env["TAVILY_API_KEY"] # Absent
         THEN /\ pc' = [pc EXCEPT ![s] = "clean_tavily_del"]
              /\ UnchangedLocals
         ELSE EndRun(s)
    /\ UNCHANGED <<env, env0, ui, kickoffs, kickoff_inputs, escaped, raised>>
    /\ UnchangedInputs

(* Line 162: del os.environ["TAVILY_API_KEY"]; the script ends *)
CleanTavilyDel(s) ==
    /\ pc[s] = "clean_tavily_del"
    /\ IF env["TAVILY_API_KEY"] # Absent
         THEN /\ env' = [env EXCEPT !["TAVILY_API_KEY"] = Absent]
              /\ UNCHANGED <<ui, escaped>>
              /\ EndRun(s)
         ELSE /\ Leave(s, "Exception", KeyErrorMsg("TAVILY_API_KEY"), ui[s])
              /\ env' = env
    /\ UNCHANGED <<env0, kickoffs, kickoff_inputs, raised>>
    /\ UnchangedInputs

\* one statement of the script run of session s
Run(s) ==
    \/ Submit(s)
    \/ Validate(s)
    \/ SetOpenAI(s)
    \/ SetTavily(s)
    \/ InitTool(s)
    \/ InitLLM(s)
    \/ InitDone(s)
    \/ Build(s)
    \/ Kickoff(s)
    \/ TaskStart(s)
    \/ TaskComplete(s)
    \/ KickoffRaise(s)
    \/ KickoffReturn(s)
    \/ KickoffDone(s)
    \/ Render(s)
    \/ Except(s)
    \/ CleanOpenAICheck(s)
    \/ CleanOpenAIDel(s)
    \/ CleanTavilyCheck(s)
    \/ CleanTavilyDel(s)

(* One user: the single-threaded, one-request-at-a-time use of the page,  *)
(* with every combination of widget values and of inherited environment.  *)
Solo == {"s1"}

Next == \E s \in Solo : Rerun(s) \/ Run(s)

Spec == Init /\ [][Next]_vars

(* The server with every session open at once: each user has typed their  *)
(* own two keys, the process inherited neither variable, and the script    *)
(* runs of the sessions interleave statement by statement.                 *)
InitServer ==
    /\ env0 = [k \in EnvVars |-> Absent]
    /\ env = env0
    /\ openai_api_key = [s \in Sessions |-> "sk-" \o s]
    /\ tavily_api_key = [s \in Sessions |-> "tvly-" \o s]
    /\ sujet_video = [s \in Sessions |-> DefaultTopic]
    /\ pc = [s \in Sessions |-> "idle"]
    /\ ui = [s \in Sessions |-> <<>>]
    /\ web_search_tool = [s \in Sessions |-> None]
    /\ llm = [s \in Sessions |-> None]
    /\ video_crew = [s \in Sessions |-> NoCrew]
    /\ kickoffs = [s \in Sessions |-> 0]
    /\ kickoff_inputs = [s \in Sessions |-> None]
    /\ task_state = [s \in Sessions |-> AllPending]
    /\ result = [s \in Sessions |-> NoResult]
    /\ e = [s \in Sessions |-> None]
    /\ escaped = [s \in Sessions |-> None]
    /\ raised = [s \in Sessions |-> None]

NextServer == \E s \in Sessions : Run(s)

SpecServer == InitServer /\ [][NextServer]_vars

Positions ==
    {"idle", "validate", "set_openai", "set_tavily", "init_tool", "init_llm",
     "init_done", "build", "kickoff", "running", "kickoff_done", "render", "except",
     "clean_openai_check",
     "clean_openai_del", "clean_tavily_check", "clean_tavily_del"}

CleanupPositions ==
    {"clean_openai_check", "clean_openai_del", "clean_tavily_check", "clean_tavily_del"}

TypeOK ==
    /\ env \in [EnvVars -> {Absent, Preset}
                             \cup UNION {OpenAIKeys(s) \cup TavilyKeys(s) : s \in Sessions}]
    /\ pc \in [Sessions -> Positions]
    /\ kickoffs \in [Sessions -> {0, 1}]

----------------------------------------------------------------------------
(* Vocabulary of the properties *)

Has(s, kind) == \E i \in 1..Len(ui[s]) : ui[s][i].kind = kind

Shows(s, el) == \E i \in 1..Len(ui[s]) : ui[s][i] = el

\* what the page shows as the generated script: every markdown or write
\* element but the divider
Artifact(s) ==
    {ui[s][i] : i \in {j \in 1..Len(ui[s]) :
                          /\ ui[s][j].kind \in {"markdown", "write"}
                          /\ ui[s][j] # El("markdown", "---")}}

\* the phase of the request of a session, read off the position of its
\* script run: Idle before and after the run, Validating at the key guard,
\* Bootstrapping from the environment writes to the call of kickoff,
\* Running inside the spinner block of kickoff, Succeeded past it, Failed in
\* the except clause; the cleanup belongs to the phase it is reached from,
\* Failed below the banners of the except clause and Succeeded otherwise
PhaseOf(p, u) ==
    CASE p = "idle" -> "Idle"
      [] p = "validate" -> "Validating"
      [] p \in {"set_openai", "set_tavily", "init_tool", "init_llm", "init_done",
                 "build", "kickoff"}
             -> "Bootstrapping"
      [] p \in {"running", "kickoff_done"} -> "Running"
      [] p = "render" -> "Succeeded"
      [] p = "except" -> "Failed"
      [] OTHER -> IF \E i \in 1..Len(u) : u[i].kind = "error"
                    THEN "Failed" ELSE "Succeeded"

Phase(s) == PhaseOf(pc[s], ui[s])

\* a request holds the environment from its first write to the end of its run
InFlight(s) == pc[s] \notin {"idle", "validate", "set_openai"}

NoCredentials == [k \in EnvVars |-> Absent]

UserKeys == UNION {(OpenAIKeys(s) \cup TavilyKeys(s)) \ {""} : s \in Sessions}

----------------------------------------------------------------------------
\* no run is ever past the guard while one of its keys is empty: no
\* client or crew exists and kickoff is not called
MissingKeyNoCall ==
    \A s \in Sessions :
        (openai_api_key[s] = "" \/ tavily_api_key[s] = "")
            => /\ pc[s] \in {"idle", "validate"}
               /\ web_search_tool[s] = None /\ llm[s] = None
               /\ video_crew[s] = NoCrew /\ kickoffs[s] = 0

(* C1 as stated: a submit with an empty OpenAI or Tavily key halts at the *)
(* guard with the configuration error, and only it, on the page; no       *)
(* client or crew exists, kickoff is not called and os.environ is left as *)
(* it was.                                                                *)
C1_MissingKeyHalts ==
    /\ []MissingKeyNoCall
    /\ [][\A s \in Sessions :
            (/\ pc[s] = "validate" /\ pc'[s] # "validate"
             /\ (openai_api_key[s] = "" \/ tavily_api_key[s] = ""))
                => /\ pc'[s] = "idle"
                   /\ ui'[s] = <<El("error", MissingKeysMsg)>>
                   /\ env' = env]_vars

(* C1 amended: a submit with an empty OpenAI or Tavily key halts at the   *)
(* guard: the run ends there, no client or crew exists, kickoff is not    *)
(* called and os.environ is left as it was; the configuration error, and  *)
(* only it, is on the page when the st.error call of line 41 returns,     *)
(* and when that call raises the run ends without it.                     *)
C1_MissingKeyNoCall ==
    /\ []MissingKeyNoCall
    /\ [][\A s \in Sessions :
            (/\ pc[s] = "validate" /\ pc'[s] # "validate"
             /\ (openai_api_key[s] = "" \/ tavily_api_key[s] = ""))
                => /\ pc'[s] = "idle"
                   /\ env' = env
                   /\ kickoffs'[s] = 0
                   /\ \/ /\ ui'[s] = <<El("error", MissingKeysMsg)>>
                         /\ escaped'[s] = None
                      \/ /\ escaped'[s] \in DrawErrors
                         /\ \A i \in 1..Len(ui'[s]) : ui'[s][i].kind # "error"]_vars

\* the search key is missing, the run has halted with the error on the page
C1_Witness ==
    /\ pc["s1"] = "idle"
    /\ openai_api_key["s1"] # "" /\ tavily_api_key["s1"] = ""
    /\ ui["s1"] = <<El("error", MissingKeysMsg)>>

(* C2: with an empty or whitespace-only topic, a submit with both keys    *)
(* present never constructs a client and never calls kickoff.             *)
C2_BlankTopicNoRemoteCall ==
    \A s \in Sessions :
        IsBlank(sujet_video[s])
            => /\ web_search_tool[s] = None
               /\ llm[s] = None
               /\ kickoffs[s] = 0

ClientErrors == ToolErrors \cup LLMErrors

\* the banner of the except clause for an exception with message msg
Banner(msg) == El("error", ErrPrefix \o msg)

\* in a run where client construction raised, kickoff is not called and
\* the success banner is not drawn, whether the except clause took the
\* exception or it left the script
BootstrapFailureNoKickoff ==
    \A s \in Sessions :
        /\ raised[s] \in ClientErrors
              => /\ kickoffs[s] = 0
                 /\ video_crew[s] = NoCrew
                 /\ openai_api_key[s] # "" /\ tavily_api_key[s] # ""
                 /\ ~Has(s, "success")
                 /\ pc[s] \in CleanupPositions \cup {"except", "idle"}
        /\ (pc[s] = "except" /\ e[s] \in ClientErrors) => raised[s] = e[s]
        /\ escaped[s] \in ClientErrors => raised[s] = escaped[s]

(* C3 as stated: whenever TavilySearchTool() or ChatOpenAI() raises in a  *)
(* run whose two keys are present, the page shows an error carrying the   *)
(* exception's message and kickoff is not called in that run.             *)
C3_EveryBootstrapFailureReported ==
    /\ BootstrapFailureNoKickoff
    /\ \A s \in Sessions :
          (raised[s] \in ClientErrors /\ pc[s] \in CleanupPositions \cup {"idle"})
              => Shows(s, Banner(raised[s]))

(* C3 amended: whenever TavilySearchTool() or ChatOpenAI() raises, kickoff *)
(* is not called in that run.  The exception that leaves the spinner      *)
(* block of lines 50-53 is the constructor's, or the one the exit of      *)
(* st.spinner raises in its place.  When the one that leaves is of class  *)
(* Exception, the except clause is entered and, when its st.error calls   *)
(* return, the page shows the error banner carrying the message of that   *)
(* exception (when one of them raises, the run ends there without         *)
(* reaching the cleanup); when it is any other exception the run ends     *)
(* with nothing drawn.                                                    *)
C3_BootstrapFailureNoKickoff ==
    /\ []BootstrapFailureNoKickoff
    /\ [](\A s \in Sessions : escaped[s] \in ClientErrors => ui[s] = <<>>)
    /\ [][\A s \in Sessions :
            /\ (raised[s] = None /\ raised'[s] \in ClientErrors)
                  => \/ /\ pc'[s] = "except"
                        /\ e'[s] \in {raised'[s]} \cup DrawErrors
                        /\ ui'[s] = <<>>
                     \/ /\ pc'[s] = "idle"
                        /\ escaped'[s] \in {raised'[s]} \cup DrawErrors
                        /\ ui'[s] = <<>>
            /\ (pc[s] = "except" /\ raised[s] \in ClientErrors /\ pc'[s] # "except")
                  => \/ /\ pc'[s] \in CleanupPositions
                        /\ ui'[s] = <<Banner(e[s]), El("error", HintMsg)>>
                     \/ /\ pc'[s] = "idle"
                        /\ escaped'[s] \in DrawErrors
                        /\ kickoffs'[s] = 0]_vars

\* the search tool was built, the model client raised, the banner is up
C3_Witness ==
    /\ pc["s1"] \in CleanupPositions
    /\ web_search_tool["s1"] # None
    /\ llm["s1"] = None
    /\ raised["s1"] \in LLMErrors
    /\ Shows("s1", Banner(raised["s1"]))
    /\ kickoffs["s1"] = 0

\* the dependency edges of a crew: <<task, a task it takes as context>>
Edges(c) ==
    UNION {{<<c.tasks[i], x>> : x \in Range(c.context[c.tasks[i]])} :
              i \in 1..Len(c.tasks)}

(* C4: the crew a run assembles is the chain trends -> research -> script *)
(* and nothing else, and inside kickoff research is not started before    *)
(* trends is done, script is not started before research is done, and at  *)
(* most one task is running.                                              *)
C4_LinearChainInOrder ==
    \A s \in Sessions :
        /\ video_crew[s] # NoCrew
              => /\ video_crew[s].tasks = <<"task_trends", "task_research", "task_script">>
                 /\ Edges(video_crew[s]) = {<<"task_research", "task_trends">>,
                                            <<"task_script", "task_research">>}
        /\ task_state[s]["task_research"] # "pending"
              => task_state[s]["task_trends"] = "done"
        /\ task_state[s]["task_script"] # "pending"
              => task_state[s]["task_research"] = "done"
        /\ Cardinality({t \in TaskNames : task_state[s][t] = "running"}) <= 1

\* the third task is running on the assembled chain, the first two are done
C4_Witness ==
    /\ pc["s1"] = "running"
    /\ video_crew["s1"] # NoCrew
    /\ task_state["s1"] = [t \in TaskNames |->
                              IF t = "task_script" THEN "running" ELSE "done"]

\* the phase path as the specification draws it
ChainEdges ==
    {<<"Idle", "Validating">>, <<"Validating", "Bootstrapping">>,
     <<"Bootstrapping", "Running">>, <<"Running", "Succeeded">>,
     <<"Running", "Failed">>, <<"Succeeded", "Idle">>, <<"Failed", "Idle">>}

\* the early exits of the code: st.stop at the guard; the except clause
\* entered from client construction or crew assembly; an exception the
\* except clause does not catch leaving the script from there or from
\* kickoff; the except clause entered while the result is being drawn
EarlyExits ==
    {<<"Validating", "Idle">>, <<"Bootstrapping", "Failed">>,
     <<"Bootstrapping", "Idle">>, <<"Running", "Idle">>,
     <<"Succeeded", "Failed">>}

\* kickoff is called at most once per run, exactly once in a run that has
\* been inside kickoff, with the topic of the text area, and the count does
\* not move once the run has failed
KickoffOnce ==
    /\ [](\A s \in Sessions :
            /\ kickoffs[s] <= 1
            /\ (\/ Phase(s) \in {"Running", "Succeeded"}
                \/ e[s] \in KickoffErrors)
                  => /\ kickoffs[s] = 1
                     /\ kickoff_inputs[s] = sujet_video[s])
    /\ [][\A s \in Sessions :
            /\ kickoffs'[s] > kickoffs[s]
                  => /\ kickoffs[s] = 0
                     /\ Phase(s) = "Bootstrapping" /\ PhaseOf(pc'[s], ui'[s]) = "Running"
            /\ Phase(s) = "Failed"
                  => /\ PhaseOf(pc'[s], ui'[s]) \in {"Failed", "Idle"}
                     /\ kickoffs'[s] = kickoffs[s]]_vars

(* C5 as stated: every change of phase is an edge of the path             *)
(* Idle -> Validating -> Bootstrapping -> Running -> {Succeeded, Failed}  *)
(* (and back to Idle), and kickoff is called once.                        *)
C5_StrictPhasePath ==
    /\ [][\A s \in Sessions :
            Phase(s) # PhaseOf(pc'[s], ui'[s])
                => <<Phase(s), PhaseOf(pc'[s], ui'[s])>> \in ChainEdges]_vars
    /\ KickoffOnce

(* C5 amended: every change of phase is an edge of that path or one of    *)
(* the early exits (a missing key ends the request at Validating; an      *)
(* exception of client construction or crew assembly that the except      *)
(* clause catches takes it from Bootstrapping straight to Failed; an      *)
(* exception nothing catches, raised by the environment writes or not     *)
(* caught by the clause, ends it at Bootstrapping, Running or Succeeded;  *)
(* an exception raised while the result is drawn takes it from            *)
(* Succeeded to Failed); kickoff is called at most once per request,      *)
(* exactly once in every request that reaches Running, with the submitted *)
(* topic, and never again after a failure.                                *)
C5_PhasePath ==
    /\ [][\A s \in Sessions :
            Phase(s) # PhaseOf(pc'[s], ui'[s])
                => <<Phase(s), PhaseOf(pc'[s], ui'[s])>> \in ChainEdges \cup EarlyExits]_vars
    /\ KickoffOnce

\* a request went through Running and failed there: one kickoff call, made
\* with the topic on the page
C5_Witness ==
    /\ Phase("s1") = "Failed"
    /\ e["s1"] \in KickoffErrors
    /\ kickoffs["s1"] = 1
    /\ kickoff_inputs["s1"] = sujet_video["s1"]

\* after any kickoff exception neither the success banner nor a script
\* text is drawn, kickoff is not called again, the run goes on to nothing
\* but the except clause and the cleanup, and it ends with the page ready
\* for a submit
KickoffFailureHandled ==
    /\ [](\A s \in Sessions :
            /\ raised[s] \in KickoffErrors
                  => /\ ~Has(s, "success")
                     /\ Artifact(s) = {}
                     /\ result[s] = NoResult
                     /\ kickoffs[s] = 1
                     /\ pc[s] \in CleanupPositions \cup {"except", "idle"}
            /\ (pc[s] = "except" /\ e[s] \in KickoffErrors) => raised[s] = e[s]
            /\ escaped[s] \in KickoffErrors => raised[s] = escaped[s]
            /\ (pc[s] = "idle" /\ raised[s] \in KickoffErrors) => ENABLED Submit(s))
    /\ [][\A s \in Sessions :
            (raised[s] \in KickoffErrors /\ pc[s] # "idle")
                => kickoffs'[s] = kickoffs[s]]_vars

(* C6 as stated: whenever kickoff raises, the page shows the error        *)
(* carrying the exception's message, neither the success banner nor any   *)
(* script text is drawn in that run, and the run ends with the page ready *)
(* for a new submit.                                                      *)
C6_EveryKickoffErrorShown ==
    /\ KickoffFailureHandled
    /\ [](\A s \in Sessions :
            (raised[s] \in KickoffErrors /\ pc[s] \in CleanupPositions \cup {"idle"})
                => Shows(s, Banner(raised[s])))

(* C6 amended: whenever kickoff raises, the attempt is abandoned: neither *)
(* the success banner nor any script text is drawn in that run, kickoff   *)
(* is not called again, and the run ends with the page ready for a new    *)
(* submit.  The exception that leaves the spinner block of lines 140-141  *)
(* is kickoff's, or the one the exit of st.spinner raises in its place.   *)
(* When the one that leaves is of class Exception, the except clause is   *)
(* entered and, when its st.error calls return, the page shows the error  *)
(* banner carrying the message of that exception (when one of them        *)
(* raises, the run ends there); when it is any other exception, no error  *)
(* is drawn.                                                              *)
C6_KickoffErrorShown ==
    /\ KickoffFailureHandled
    /\ [](\A s \in Sessions :
            escaped[s] \in KickoffErrors => ~Has(s, "error"))
    /\ [][\A s \in Sessions :
            /\ (raised[s] = None /\ raised'[s] \in KickoffErrors)
                  => \/ /\ pc'[s] = "except"
                        /\ e'[s] \in {raised'[s]} \cup DrawErrors
                        /\ ui'[s] = ui[s]
                     \/ /\ pc'[s] = "idle"
                        /\ escaped'[s] \in {raised'[s]} \cup DrawErrors
                        /\ ui'[s] = ui[s]
            /\ (pc[s] = "except" /\ raised[s] \in KickoffErrors /\ pc'[s] # "except")
                  => \/ /\ pc'[s] \in CleanupPositions
                        /\ ui'[s] = ui[s] \o <<Banner(e[s]), El("error", HintMsg)>>
                     \/ /\ pc'[s] = "idle"
                        /\ escaped'[s] \in DrawErrors
                        /\ ~Has(s, "success")' /\ Artifact(s)' = {}]_vars

\* the run that failed in kickoff is over, its banner is on the page
C6_Witness ==
    /\ pc["s1"] = "idle"
    /\ raised["s1"] \in KickoffErrors
    /\ Shows("s1", Banner(raised["s1"]))
    /\ kickoffs["s1"] = 1

\* what the page is to show for a returned value: its raw text through
\* st.markdown for a CrewOutput, the value itself through st.write otherwise
Script(r) == El(IF r.type = "CrewOutput" THEN "markdown" ELSE "write", r.text)

(* C7 as stated: once kickoff has returned a value, the run goes on to    *)
(* show it: the page shows the returned text, unchanged, under the        *)
(* success banner, through the fallback when there is no raw field, and   *)
(* the run does not end in the except clause.                             *)
C7_RenderedAsReturned ==
    \A s \in Sessions :
        (result[s] # NoResult /\ pc[s] \notin {"kickoff_done", "render"})
            => /\ pc[s] \in CleanupPositions
               /\ Has(s, "success")
               /\ ~Has(s, "error")
               /\ Artifact(s) = {Script(result[s])}

(* C7 amended: after kickoff has returned, when the exit of st.spinner    *)
(* and the four drawing calls of lines 144-152 return, the page shows,    *)
(* below what it showed, the success banner, the divider, the header and  *)
(* the returned text unchanged (result.raw through st.markdown for a      *)
(* CrewOutput, the returned value itself through st.write otherwise) and  *)
(* the run goes on to the cleanup with no error drawn; when one of these  *)
(* calls raises, no script text is shown and the run goes to the except   *)
(* clause or ends there.  A script text on the page is always under a     *)
(* success banner, with no error banner.                                  *)
C7_RenderedWhenDrawn ==
    /\ [](\A s \in Sessions :
            /\ Artifact(s) # {}
                  => /\ Has(s, "success") /\ ~Has(s, "error")
                     /\ kickoffs[s] = 1
                     /\ \E r \in Results : Artifact(s) = {Script(r)}
            /\ (pc[s] \in CleanupPositions /\ result[s] # NoResult /\ Artifact(s) # {})
                  => Artifact(s) = {Script(result[s])})
    /\ [][\A s \in Sessions :
            /\ (pc[s] = "render" /\ pc'[s] # "render")
                  => \/ /\ pc'[s] \in CleanupPositions
                        /\ ui'[s] = ui[s] \o <<El("success", SuccessMsg),
                                               El("markdown", "---"),
                                               El("subheader", "Script Video Genere"),
                                               Script(result[s])>>
                        /\ ~Has(s, "error")'
                     \/ /\ pc'[s] = "except"
                        /\ e'[s] \in DrawErrors
                        /\ Artifact(s)' = {}
                     \/ /\ pc'[s] = "idle"
                        /\ escaped'[s] \in DrawErrors
                        /\ Artifact(s)' = {}
            /\ (pc[s] = "kickoff_done" /\ pc'[s] # "kickoff_done")
                  => \/ pc'[s] = "render" /\ ui'[s] = ui[s]
                     \/ /\ pc'[s] \in {"except", "idle"}
                        /\ Artifact(s)' = {}]_vars

\* kickoff returned None and the page shows that value below the banner
C7_Witness ==
    /\ pc["s1"] \in CleanupPositions
    /\ result["s1"].type = "NoneType"
    /\ Shows("s1", El("write", "None"))
    /\ Has("s1", "success")

(* C8: the environment holds a key a user typed only while some request   *)
(* is between its environment writes and the end of its run, and the last *)
(* step of a request that passed the guard, on every path, leaves both    *)
(* variables absent when no other request is under way.                   *)
C8_CredentialsDiscarded ==
    /\ [](\A k \in EnvVars :
            env[k] \in UserKeys => \E s \in Sessions : InFlight(s))
    /\ [][\A s \in Sessions :
            (/\ InFlight(s) /\ pc'[s] = "idle"
             /\ \A o \in Sessions \ {s} : ~InFlight(o))
                => env' = NoCredentials]_vars

(* C9: a request only ever builds its clients from the keys its own user  *)
(* typed, and while it is between its environment writes and its client   *)
(* construction no other session removes or replaces them.                *)
C9_OwnCredentialsOnly ==
    \A s \in Sessions :
        /\ web_search_tool[s] \in {None, tavily_api_key[s]}
        /\ llm[s] \in {None, openai_api_key[s]}
        /\ pc[s] \in {"set_tavily", "init_tool", "init_llm"}
              => env["OPENAI_API_KEY"] = openai_api_key[s]
        /\ pc[s] = "init_tool"
              => env["TAVILY_API_KEY"] = tavily_api_key[s]

(* C10 as stated: requests leave each of the two variables as they found  *)
(* it: whenever the page is at rest, a variable that does not hold a key  *)
(* left behind by an interrupted run has the value it had when the        *)
(* process started, set to the same value if it was set, absent if it was *)
(* absent.                                                                *)
C10_EnvironmentRestored ==
    \A s \in Solo :
        pc[s] = "idle" => \A k \in EnvVars : env[k] \in UserKeys \/ env[k] = env0[k]

(* C10 amended: a request that stops at the key guard leaves both        *)
(* variables untouched; a request whose run reaches the cleanup leaves    *)
(* both variables absent when it ends, whether or not they were set       *)
(* before: a value the process had is removed, not restored; a request    *)
(* ended before the cleanup by an exception that leaves the script leaves *)
(* the variables as they are at that statement: nothing written when      *)
(* line 45 raises, the OpenAI key written when line 46 raises, and both   *)
(* keys written when the exception comes from the try block (one the      *)
(* except clause does not catch) or from inside the except clause.        *)
C10_EnvironmentCleared ==
    [][\A s \in Solo :
         /\ (pc[s] = "validate" /\ pc'[s] = "idle") => env' = env
         /\ (pc[s] \in CleanupPositions /\ pc'[s] = "idle") => env' = NoCredentials
         /\ (pc[s] = "set_openai" /\ pc'[s] = "idle")
               => env' = env /\ EmbeddedNul(openai_api_key[s])
         /\ (pc[s] = "set_tavily" /\ pc'[s] = "idle")
               => /\ env' = env
                  /\ env["OPENAI_API_KEY"] = openai_api_key[s]
                  /\ EmbeddedNul(tavily_api_key[s])
         /\ (/\ InFlight(s) /\ pc'[s] = "idle"
             /\ pc[s] \notin CleanupPositions \cup {"set_openai", "set_tavily"})
               => /\ env' = env
                  /\ env["OPENAI_API_KEY"] = openai_api_key[s]
                  /\ env["TAVILY_API_KEY"] = tavily_api_key[s]]_vars

\* both variables were set when the process started, a request has run to
\* its end and both are gone
C10_Witness ==
    /\ env0 = [k \in EnvVars |-> Preset]
    /\ pc["s1"] = "idle"
    /\ Has("s1", "success")
    /\ env = NoCredentials

====
